---- MODULE Spec2Model ----
(***************************************************************************)
(* Model of satlas.py: the tile pipeline of main (input, projection,       *)
(* parallel fetch through a ThreadPoolExecutor, stitch, save) and the pure *)
(* functions utm_to_latlon (projection definition selection) and           *)
(* lat_lon_to_tile_indices (slippy-map tile index).                        *)
(***************************************************************************)
EXTENDS Integers, Sequences, FiniteSets, TLC

(***************************************************************************)
(* Bounds of the model.                                                    *)
(***************************************************************************)
\* largest number of tile addresses in a rectangle main resolves
MaxTiles == 3
\* pool sizes 1..MaxWorkers are tried beside the default, so that more
\* tasks than workers get scheduled
MaxWorkers == 2
\* tile images are 1..MaxTilePx pixels wide and 1..MaxTilePx high
MaxTilePx == 2
\* zoom levels 0..MaxZoom are tried by the tile indexer
MaxZoom == 2

\* max_workers=10, the default main leaves in place
DefaultMaxWorkers == 10

\* tile columns and rows the projection stage can resolve to
TileXs == {5, 6, 7}
TileYs == {10, 11}
Grid == TileXs \X TileYs

\* what the tile source answers for one address: HTTP 200 with a decodable
\* payload, a non-200 status, or HTTP 200 with a payload Image.open rejects
Outcomes == {"ok", "http_error", "decode_error"}

VARIABLES
    pc,             \* position of main
    geotiff,        \* --geotiff argument: "none", "missing" or "present"
    projectable,    \* the zone and the corner coordinates can be projected
    failedStage,    \* stage whose exception ended main, or "none"
    x_range,        \* <<x_start, x_end>>
    y_range,        \* <<y_start, y_end>>
    source,         \* tile source: address of the rectangle -> outcome
    tileSize,       \* <<width, height>> of the tiles the source served
    max_workers,    \* pool size
    submitted,      \* number of coords already submitted
    work_queue,     \* executor._work_queue
    num_threads,    \* len(executor._threads)
    idle_semaphore, \* executor._idle_semaphore
    future,         \* address -> state of its future
    yielded,        \* futures as_completed has handed to main
    tiles_dict,     \* keys of tiles_dict in insertion order
    fetches,        \* address -> number of requests.get issued
    stitched,       \* result of stitch_tiles, or None
    saved,          \* the output file has been written
    crs_epsg,       \* EPSG code of the GeoTIFF's CRS
    utm_zone,       \* zone extract_geotiff_info returns (0: not yet)
    crs_used,       \* EPSG code utm_to_latlon builds its Transformer from
    lat, lon, zoom, \* inputs of lat_lon_to_tile_indices (whole degrees)
    tile_xy         \* <<x_tile, y_tile>> it returns, or None

pipeVars == <<pc, geotiff, projectable, failedStage, x_range, y_range, source, tileSize,
              max_workers, submitted, work_queue, num_threads, idle_semaphore,
              future, yielded, tiles_dict, fetches, stitched, saved>>
projVars == <<crs_epsg, utm_zone, crs_used>>
tileVars == <<lat, lon, zoom, tile_xy>>
vars == <<pipeVars, projVars, tileVars>>

None == <<>>
Min(a, b) == IF a <= b THEN a ELSE b
Max(a, b) == IF a >= b THEN a ELSE b

(***************************************************************************)
(* download_tiles_parallel: the coordinate list                            *)
(***************************************************************************)
RECURSIVE Range(_, _)
\* range(lo, hi + 1) as a sequence
Range(lo, hi) == IF lo > hi THEN <<>> ELSE <<lo>> \o Range(lo + 1, hi)

RECURSIVE Pairs(_, _)
\* [(x, y) for x in xs for y in ys]
Pairs(xs, ys) ==
    IF xs = <<>> THEN <<>>
    ELSE [i \in 1..Len(ys) |-> <<Head(xs), ys[i]>>] \o Pairs(Tail(xs), ys)

\* a mutant of Coords: range(x_start, x_end), the last column is left out
CoordsShort ==
    Pairs(Range(x_range[1], x_range[2] - 1), Range(y_range[1], y_range[2]))

\* coords, lines 152-153: x outermost
Coords == Pairs(Range(x_range[1], x_range[2]), Range(y_range[1], y_range[2]))
CoordSet == {Coords[i] : i \in 1..Len(Coords)}
Rect == (x_range[1]..x_range[2]) \X (y_range[1]..y_range[2])

Running == {a \in DOMAIN future : future[a] = "running"}
Finished == {a \in DOMAIN future : future[a] \in {"result", "none", "exception"}}

(***************************************************************************)
(* stitch_tiles                                                            *)
(***************************************************************************)
Blank == <<0, 0, 0, 0>>
\* a tile image is named by the address the source served it for; its pixel
\* (i, j)
TilePixel(tile, i, j) == <<tile[1], tile[2], i + 1, j + 1>>

\* Image.new("RGB", size): every pixel at the default value
NewImage(size) ==
    [size |-> size,
     px |-> [p \in (0..size[1] - 1) \X (0..size[2] - 1) |-> Blank]]

\* tile.size: the tiles of one run all have the size the source serves
SizeOf(tile, size) == size

\* stitched.paste(tile, offset): the pixels of the tile over the region of
\* the tile's size at offset, clipped to the canvas
Paste(img, tile, size, offset) ==
    [img EXCEPT !.px =
        [p \in DOMAIN img.px |->
            IF /\ p[1] - offset[1] \in 0..SizeOf(tile, size)[1] - 1
               /\ p[2] - offset[2] \in 0..SizeOf(tile, size)[2] - 1
            THEN TilePixel(tile, p[1] - offset[1], p[2] - offset[2])
            ELSE img.px[p]]]

\* a mutant of Offset: the absolute tile index is used, x_range[0] is not
\* subtracted
OffsetAbsolute(x, y, xr, yr, width, height) ==
    <<x * width, (y - yr[1]) * height>>

\* (x_offset, y_offset) of lines 133-134
Offset(x, y, xr, yr, width, height) ==
    <<(x - xr[1]) * width, (y - yr[1]) * height>>

\* (x, y) in tiles_dict
HasKey(td, key) == \E i \in 1..Len(td) : td[i][1] = key
\* tiles_dict[(x, y)]
Lookup(td, key) == td[CHOOSE i \in 1..Len(td) : td[i][1] = key][2]

\* a mutant of DictSet: the tile is filed under the next address of the
\* coordinate list, in order of arrival
DictSetByArrival(td, key, value) == Append(td, <<Coords[Len(td) + 1], value>>)

\* tiles_dict[coords] = tile: a new key goes last, an existing key keeps its
\* place and takes the new value
DictSet(td, key, value) ==
    IF HasKey(td, key)
    THEN [i \in 1..Len(td) |-> IF td[i][1] = key THEN <<key, value>> ELSE td[i]]
    ELSE Append(td, <<key, value>>)

RECURSIVE PasteAll(_, _, _, _, _, _, _, _)
\* the loop of lines 129-135 over the addresses left in cells, y outermost
PasteAll(img, td, cells, xr, yr, size, width, height) ==
    IF cells = <<>> THEN img
    ELSE LET y == Head(cells)[1]
             x == Head(cells)[2]
         IN  PasteAll(IF HasKey(td, <<x, y>>)
                      THEN Paste(img, Lookup(td, <<x, y>>), size,
                                 Offset(x, y, xr, yr, width, height))
                      ELSE img,
                      td, Tail(cells), xr, yr, size, width, height)

\* stitch_tiles(tiles_dict, x_range, y_range) on tiles the source served in
\* the given size; the sample tile is the first value of the dict, the
\* first tile main inserted
StitchTiles(td, xr, yr, size) ==
    IF td = <<>> THEN None
    ELSE LET sample_tile == td[1][2]
             width == SizeOf(sample_tile, size)[1]
             height == SizeOf(sample_tile, size)[2]
             grid_width == xr[2] - xr[1] + 1
             grid_height == yr[2] - yr[1] + 1
         IN  PasteAll(NewImage(<<width * grid_width, height * grid_height>>),
                      td, Pairs(Range(yr[1], yr[2]), Range(xr[1], xr[2])),
                      xr, yr, size, width, height)

(***************************************************************************)
(* main, the input and projection stages                                   *)
(***************************************************************************)
\* a mutant of InputRaises: the missing file is not detected
InputNeverRaises == FALSE

\* extract_geotiff_info raises FileNotFoundError (lines 16-17)
InputRaises == geotiff = "missing"

\* main, lines 209-232: with --geotiff the file is read, without it the
\* predefined coordinates are used
ExtractGeotiffInfo ==
    /\ pc = "start"
    /\ \/ /\ InputRaises
          /\ pc' = "aborted"
          /\ failedStage' = "input"
       \/ /\ ~InputRaises
          /\ pc' = "resolve"
          /\ UNCHANGED failedStage
    /\ UNCHANGED <<geotiff, projectable, x_range, y_range, source, tileSize, max_workers,
                   submitted, work_queue, num_threads, idle_semaphore, future,
                   yielded, tiles_dict, fetches, stitched, saved>>
    /\ UNCHANGED <<projVars, tileVars>>

\* utm_to_latlon or lat_lon_to_tile_indices raises: CRSError for a zone the
\* EPSG database does not know, a math domain error for coordinates outside
\* the projection's domain
ProjectionRaises == ~projectable

\* get_tile_bounds_for_utm_region, lines 171-190, as main calls it (244-246):
\* the projection raises, or both corners get a tile address and min/max
\* normalises the rectangle; the tile source's answers are fixed here
GetTileBounds ==
    /\ pc = "resolve"
    /\ \/ /\ ProjectionRaises
          /\ pc' = "aborted"
          /\ failedStage' = "projection"
          /\ UNCHANGED <<x_range, y_range, source>>
       \/ \E ul \in Grid, lr \in Grid :
            LET x_min == Min(ul[1], lr[1])
                x_max == Max(ul[1], lr[1])
                y_min == Min(ul[2], lr[2])
                y_max == Max(ul[2], lr[2])
                addrs == (x_min..x_max) \X (y_min..y_max)
            IN  /\ ~ProjectionRaises
                /\ Cardinality(addrs) <= MaxTiles
                /\ x_range' = <<x_min, x_max>>
                /\ y_range' = <<y_min, y_max>>
                /\ \E src \in [addrs -> Outcomes] : source' = src
                /\ pc' = "submit"
                /\ UNCHANGED failedStage
    /\ UNCHANGED <<geotiff, projectable, tileSize, max_workers, submitted,
                   work_queue, num_threads, idle_semaphore, future, yielded,
                   tiles_dict, fetches, stitched, saved>>
    /\ UNCHANGED <<projVars, tileVars>>

(***************************************************************************)
(* download_tiles_parallel and the ThreadPoolExecutor it drives            *)
(***************************************************************************)
\* a mutant of CanSpawn: the pool size does not limit the threads
CanSpawnUnbounded(n) == TRUE

\* ThreadPoolExecutor._adjust_thread_count: a thread is added only below
\* max_workers
CanSpawn(n) == n < max_workers

\* executor.submit(download_single_tile, coord), lines 158-159, one coord of
\* the list per step; after the last one main enters as_completed
Submit ==
    /\ pc = "submit"
    /\ submitted < Len(Coords)
    /\ LET coord == Coords[submitted + 1]
       IN  /\ future' = [future EXCEPT ![coord] = "pending"]
           /\ work_queue' = Append(work_queue, coord)
    /\ IF idle_semaphore > 0
       THEN /\ idle_semaphore' = idle_semaphore - 1
            /\ UNCHANGED num_threads
       ELSE /\ num_threads' = IF CanSpawn(num_threads)
                              THEN num_threads + 1 ELSE num_threads
            /\ UNCHANGED idle_semaphore
    /\ submitted' = submitted + 1
    /\ pc' = IF submitted + 1 = Len(Coords) THEN "collect" ELSE "submit"
    /\ UNCHANGED <<geotiff, projectable, failedStage, x_range, y_range,
                   source, tileSize, max_workers, yielded, tiles_dict,
                   fetches, stitched, saved>>
    /\ UNCHANGED <<projVars, tileVars>>

\* a worker thread that runs no task takes the next work item and issues
\* requests.get for it (download_single_tile -> download_tile, line 100)
WorkerStart ==
    /\ work_queue # <<>>
    /\ Cardinality(Running) < num_threads
    /\ LET coord == Head(work_queue)
       IN  /\ future' = [future EXCEPT ![coord] = "running"]
           /\ fetches' = [fetches EXCEPT ![coord] = @ + 1]
    /\ work_queue' = Tail(work_queue)
    /\ UNCHANGED <<pc, geotiff, projectable, failedStage, x_range, y_range,
                   source, tileSize, max_workers, submitted, num_threads,
                   idle_semaphore, yielded, tiles_dict, stitched, saved>>
    /\ UNCHANGED <<projVars, tileVars>>

\* what the future of download_single_tile(coord) holds once download_tile
\* is over (lines 101-106 and 146-149): ((x, y), tile) after a 200 with a
\* decodable payload, None after another status, the exception Image.open
\* raised otherwise
TaskOutcome(coord) ==
    CASE source[coord] = "ok" -> "result"
      [] source[coord] = "http_error" -> "none"
      [] source[coord] = "decode_error" -> "exception"

\* the response of one fetch arrives and the task ends; a worker that then
\* finds the queue empty releases the idle semaphore
WorkerFinish(coord) ==
    /\ future[coord] = "running"
    /\ future' = [future EXCEPT ![coord] = TaskOutcome(coord)]
    /\ idle_semaphore' = IF work_queue = <<>>
                         THEN idle_semaphore + 1 ELSE idle_semaphore
    /\ UNCHANGED <<pc, geotiff, projectable, failedStage, x_range, y_range,
                   source, tileSize, max_workers, submitted, work_queue,
                   num_threads, yielded, tiles_dict, fetches, stitched, saved>>
    /\ UNCHANGED <<projVars, tileVars>>

\* a mutant of LoopDone: the loop ends only once every coord has a tile
LoopDoneWhenFull(y, td) == Len(td) = Len(Coords)

\* as_completed(future_to_coords) is exhausted: every future was yielded
LoopDone(y, td) == y = CoordSet

\* one iteration of the loop of lines 162-166: as_completed yields a
\* finished future, future.result() returns its value or raises its
\* exception, a value that is not None is stored under its coords
Collect(coord) ==
    /\ pc = "collect"
    /\ coord \in Finished \ yielded
    /\ yielded' = yielded \cup {coord}
    /\ IF future[coord] = "exception"
       THEN /\ pc' = "unwinding"
            /\ UNCHANGED tiles_dict
       ELSE /\ tiles_dict' = IF future[coord] = "result"
                             THEN DictSet(tiles_dict, coord, coord)
                             ELSE tiles_dict
            /\ pc' = IF LoopDone(yielded', tiles_dict')
                     THEN "shutdown" ELSE "collect"
    /\ UNCHANGED <<geotiff, projectable, failedStage, x_range, y_range,
                   source, tileSize, max_workers, submitted, work_queue,
                   num_threads, idle_semaphore, future, fetches, stitched,
                   saved>>
    /\ UNCHANGED <<projVars, tileVars>>

\* the end of the with block, line 156: executor.shutdown(wait=True) joins
\* the worker threads, which first drain the queue; then the function
\* returns tiles_dict (line 168) or the exception leaves it and main
Shutdown ==
    /\ pc \in {"shutdown", "unwinding"}
    /\ work_queue = <<>>
    /\ Running = {}
    /\ pc' = IF pc = "shutdown" THEN "returned" ELSE "aborted"
    /\ failedStage' = IF pc = "shutdown" THEN failedStage ELSE "fetch"
    /\ UNCHANGED <<geotiff, projectable, x_range, y_range, source, tileSize,
                   max_workers, submitted, work_queue, num_threads,
                   idle_semaphore, future, yielded, tiles_dict, fetches,
                   stitched, saved>>
    /\ UNCHANGED <<projVars, tileVars>>

(***************************************************************************)
(* main, the stitch stage                                                  *)
(***************************************************************************)
\* the sizes a tile source serves its tiles in, one size for all tiles of a
\* run
TileSizes == (1..MaxTilePx) \X (1..MaxTilePx)

\* main, lines 255-258 and 263-264: stitch_tiles is called when tiles_dict
\* is not empty, otherwise "No tiles were downloaded." ends the run. The
\* size of the tiles shows here, where sample_tile.size is first read
Stitch ==
    /\ pc = "returned"
    /\ IF tiles_dict # <<>>
       THEN /\ \E size \in TileSizes :
                 /\ tileSize' = size
                 /\ stitched' = StitchTiles(tiles_dict, x_range, y_range, size)
            /\ pc' = "stitched"
       ELSE /\ pc' = "done"
            /\ UNCHANGED <<stitched, tileSize>>
    /\ UNCHANGED <<geotiff, projectable, failedStage, x_range, y_range,
                   source, max_workers, submitted, work_queue, num_threads,
                   idle_semaphore, future, yielded, tiles_dict, fetches,
                   saved>>
    /\ UNCHANGED <<projVars, tileVars>>

\* main, lines 259-262: the image is written when stitch_tiles returned one
Save ==
    /\ pc = "stitched"
    /\ saved' = (stitched # None)
    /\ pc' = "done"
    /\ UNCHANGED <<geotiff, projectable, failedStage, x_range, y_range,
                   source, tileSize, max_workers, submitted, work_queue,
                   num_threads, idle_semaphore, future, yielded, tiles_dict,
                   fetches, stitched>>
    /\ UNCHANGED <<projVars, tileVars>>

\* the state main starts in: the arguments are parsed, nothing has run
Init ==
    /\ pc = "start"
    /\ geotiff \in {"none", "missing", "present"}
    /\ projectable \in BOOLEAN
    /\ failedStage = "none"
    /\ x_range = <<0, -1>>
    /\ y_range = <<0, -1>>
    /\ source = <<>>
    /\ tileSize = <<0, 0>>
    /\ max_workers \in (1..MaxWorkers) \cup {DefaultMaxWorkers}
    /\ submitted = 0
    /\ work_queue = <<>>
    /\ num_threads = 0
    /\ idle_semaphore = 0
    /\ future = [a \in Grid |-> "unsubmitted"]
    /\ yielded = {}
    /\ tiles_dict = <<>>
    /\ fetches = [a \in Grid |-> 0]
    /\ stitched = None
    /\ saved = FALSE
    /\ crs_epsg = 0
    /\ utm_zone = 0
    /\ crs_used = 0
    /\ lat = 0
    /\ lon = 0
    /\ zoom = 0
    /\ tile_xy = None

Next ==
    \/ ExtractGeotiffInfo
    \/ GetTileBounds
    \/ Submit
    \/ WorkerStart
    \/ \E coord \in Grid : WorkerFinish(coord)
    \/ \E coord \in Grid : Collect(coord)
    \/ Shutdown
    \/ Stitch
    \/ Save

Spec == Init /\ [][Next]_vars

\* the runs of main that reach the fetch stage: the predefined coordinates
\* are used and can be projected, and the pool is smaller than the default
InitFetch ==
    /\ Init
    /\ geotiff = "none"
    /\ projectable
    /\ max_workers <= MaxWorkers

\* each thread keeps running: main through its loop and the join, the
\* workers through the queue, and every fetch that was issued gets its
\* response
FairSpec ==
    /\ InitFetch
    /\ [][Next]_vars
    /\ WF_vars(ExtractGeotiffInfo \/ GetTileBounds \/ Submit \/ Shutdown
               \/ Stitch \/ Save)
    /\ WF_vars(\E coord \in Grid : Collect(coord))
    /\ WF_vars(WorkerStart)
    /\ \A coord \in Grid : WF_vars(WorkerFinish(coord))

(***************************************************************************)
(* utm_to_latlon as main reaches it from a GeoTIFF                         *)
(***************************************************************************)
\* the pipeline variables while a pure function is exercised on its own
PipelineIdle ==
    /\ pc = "idle"
    /\ geotiff = "none"
    /\ projectable = TRUE
    /\ failedStage = "none"
    /\ x_range = <<0, -1>>
    /\ y_range = <<0, -1>>
    /\ source = <<>>
    /\ tileSize = <<0, 0>>
    /\ max_workers = 1
    /\ submitted = 0
    /\ work_queue = <<>>
    /\ num_threads = 0
    /\ idle_semaphore = 0
    /\ future = [a \in Grid |-> "unsubmitted"]
    /\ yielded = {}
    /\ tiles_dict = <<>>
    /\ fetches = [a \in Grid |-> 0]
    /\ stitched = None
    /\ saved = FALSE

\* EPSG codes of WGS 84 / UTM: 326zz for zone zz north, 327zz for zone zz
\* south (the comment of line 51)
UtmNorth == 32601..32660
UtmSouth == 32701..32760

\* extract_geotiff_info, lines 48-55: the zone from the EPSG code
ZoneOfEpsg(epsg) ==
    IF 32601 <= epsg /\ epsg <= 32660 THEN epsg - 32600
    ELSE IF 32701 <= epsg /\ epsg <= 32760 THEN epsg - 32700
    ELSE 0

RECURSIVE NumDigits(_)
\* the number of characters of str(n), n >= 0
NumDigits(n) == IF n < 10 THEN 1 ELSE 1 + NumDigits(n \div 10)

RECURSIVE Pow(_, _)
Pow(b, e) == IF e = 0 THEN 1 ELSE b * Pow(b, e - 1)

\* the number the text f"EPSG:326{zone}" of line 83 names: the digits of
\* zone appended to 326; the parameter northern is not read
EpsgOfFormat(zone, northern) == 326 * Pow(10, NumDigits(zone)) + zone

\* extract_geotiff_info returns the zone of the file's CRS (line 78)
ExtractZone ==
    /\ utm_zone = 0
    /\ utm_zone' = ZoneOfEpsg(crs_epsg)
    /\ UNCHANGED <<crs_epsg, crs_used>>
    /\ UNCHANGED <<pipeVars, tileVars>>

\* get_tile_bounds_for_utm_region, lines 177-178, calls
\* utm_to_latlon(x, y, zone=utm_zone): northern keeps its default True
UtmToLatLon ==
    /\ utm_zone # 0
    /\ crs_used = 0
    /\ crs_used' = EpsgOfFormat(utm_zone, TRUE)
    /\ UNCHANGED <<crs_epsg, utm_zone>>
    /\ UNCHANGED <<pipeVars, tileVars>>

InitProj ==
    /\ PipelineIdle
    /\ crs_epsg \in UtmNorth \cup UtmSouth
    /\ utm_zone = 0
    /\ crs_used = 0
    /\ lat = 0
    /\ lon = 0
    /\ zoom = 0
    /\ tile_xy = None

NextProj == ExtractZone \/ UtmToLatLon

SpecProj == InitProj /\ [][NextProj]_vars

(***************************************************************************)
(* lat_lon_to_tile_indices                                                 *)
(***************************************************************************)
\* latitudes and longitudes tried, in whole degrees
LatSamples == {-89, -86, -85, -60, -30, 0, 30, 60, 85, 86, 89}
LonSamples == {-180 + 30 * k : k \in 0..12}

\* math.log(math.tan(r) + 1 / math.cos(r)) / math.pi for r = radians(lat),
\* in thousandths, rounded to the nearest
MercatorMilli(d) ==
    CASE d = 0 -> 0
      [] d = 30 -> 175
      [] d = 60 -> 419
      [] d = 85 -> 997
      [] d = 86 -> 1068
      [] d = 89 -> 1509
      [] d = -30 -> -175
      [] d = -60 -> -419
      [] d = -85 -> -997
      [] d = -86 -> -1068
      [] d = -89 -> -1509

\* a mutant of ToInt: round() instead of int()
ToIntRound(num, den) == (2 * num + den) \div (2 * den)

\* int(num / den) for den > 0: the fraction is cut off, towards zero
ToInt(num, den) ==
    IF num >= 0 THEN num \div den ELSE -((-num) \div den)

\* lat_lon_to_tile_indices(lat, lon, zoom), lines 90-93
LatLonToTileIndices(la, lo, z) ==
    LET n == Pow(2, z)
        x_tile == ToInt((lo + 180) * n, 360)
        y_tile == ToInt((1000 - MercatorMilli(la)) * n, 2 * 1000)
    IN  <<x_tile, y_tile>>

\* one call of lat_lon_to_tile_indices on the inputs drawn by InitTile
TileIndices ==
    /\ tile_xy = None
    /\ tile_xy' = LatLonToTileIndices(lat, lon, zoom)
    /\ UNCHANGED <<lat, lon, zoom>>
    /\ UNCHANGED <<pipeVars, projVars>>

InitTile ==
    /\ PipelineIdle
    /\ crs_epsg = 0
    /\ utm_zone = 0
    /\ crs_used = 0
    /\ lat \in LatSamples
    /\ lon \in LonSamples
    /\ zoom \in 0..MaxZoom
    /\ tile_xy = None

NextTile == TileIndices

SpecTile == InitTile /\ [][NextTile]_vars

(***************************************************************************)
(* Properties                                                              *)
(***************************************************************************)
\* the addresses whose fetch succeeds, and the keys of tiles_dict
OkAddrs == {a \in Rect : source[a] = "ok"}
Keys == {tiles_dict[i][1] : i \in 1..Len(tiles_dict)}
Items == {tiles_dict[i] : i \in 1..Len(tiles_dict)}
Returned == pc \in {"returned", "stitched", "done"}
Raised == pc = "aborted" /\ failedStage = "fetch"
AllFinished == work_queue = <<>> /\ Rect \subseteq Finished

\* C1: once download_tiles_parallel is over on N addresses of which K < N
\* failed (non-200 or undecodable payload), it has returned without raising
\* and tiles_dict has exactly N - K entries, the addresses that succeeded.
C1_PartialFailureTolerance ==
    (/\ Returned \/ Raised
     /\ Cardinality(Rect \ OkAddrs) < Cardinality(Rect))
    => /\ Returned
       /\ Len(tiles_dict) = Cardinality(Rect) - Cardinality(Rect \ OkAddrs)
       /\ Keys = OkAddrs

\* C2: no per-tile failure, a non-200 response or a decode failure, ever
\* aborts the batch: main never leaves the collecting loop by an exception,
\* and the fetch stage ends with every tile that succeeded in tiles_dict
\* and main on its way to the stitch stage.
C2_FetchErrorsIsolated ==
    /\ pc # "unwinding"
    /\ ~Raised
    /\ Returned => Keys = OkAddrs

\* C3: the number of fetches in flight never exceeds max_workers.
C3_WorkerPoolBound == Cardinality(Running) <= max_workers

\* the pool is full while further tasks wait in the queue
C3_Witness ==
    /\ Cardinality(Running) = max_workers
    /\ Len(work_queue) >= 1
    /\ Cardinality(Rect) > max_workers

\* C4: no address is fetched more than once, none outside the rectangle is
\* fetched at all, main leaves the submit loop with every address of the
\* rectangle scheduled, and when the fetch stage is over (returned or
\* raised) every address of the rectangle was fetched exactly once.
C4_EachAddressFetchedOnce ==
    /\ \A a \in Grid : fetches[a] <= 1
    /\ \A a \in Grid \ Rect : fetches[a] = 0 /\ future[a] = "unsubmitted"
    /\ pc \in {"collect", "shutdown", "unwinding"} \/ Returned \/ Raised
       => \A a \in Rect : future[a] # "unsubmitted"
    /\ Returned \/ Raised => \A a \in Rect : fetches[a] = 1

\* the fetch stage is over on several addresses, one of which failed
C4_Witness ==
    /\ Returned
    /\ Cardinality(Rect) >= 2
    /\ \E a \in Rect : source[a] = "http_error"
    /\ \A a \in Rect : fetches[a] = 1

\* C5: whenever download_tiles_parallel has returned (so at every stitch
\* and at every write of the output file) no task is queued or in flight,
\* and, every thread running on and every fetch getting its response, a
\* fetch stage that started ends, by a return or by an exception.
C5_FullJoinBeforeStitch ==
    /\ [](Returned \/ saved => AllFinished)
    /\ (pc = "submit") ~> (Returned \/ Raised)

\* the image was stitched after more tasks than workers were joined
C5_Witness ==
    /\ pc = "stitched"
    /\ Cardinality(Rect) > max_workers
    /\ AllFinished

\* the dict main would build if the tasks completed in the order of the
\* coordinate list
RECURSIVE InListOrder(_)
InListOrder(cs) ==
    IF cs = <<>> THEN <<>>
    ELSE (IF source[Head(cs)] = "ok" THEN <<<<Head(cs), Head(cs)>>>> ELSE <<>>)
         \o InListOrder(Tail(cs))

\* C6: whatever the order in which the tasks complete, the TileSet
\* returned maps exactly the addresses that succeeded to their tiles, and
\* the image stitched from it is the image stitched from the tiles taken in
\* the order of the coordinate list.
C6_OrderIndependence ==
    /\ Returned => Items = {<<a, a>> : a \in OkAddrs}
    /\ pc \in {"stitched", "done"}
       => stitched = StitchTiles(InListOrder(Coords), x_range, y_range,
                                 tileSize)

\* an image was stitched from tiles that arrived in another order than
\* that of the coordinate list
C6_Witness ==
    /\ pc = "stitched"
    /\ Len(tiles_dict) >= 2
    /\ tiles_dict # InListOrder(Coords)

\* C7: the image stitch_tiles returns for a non-empty tiles_dict has size
\* (width * grid_width, height * grid_height), and each of its pixels
\* shows the tile of the cell it lies in, at the pixel's place within the
\* cell, when that cell's address is in tiles_dict, and is blank otherwise.
C7_PlacementCorrectness ==
    pc = "stitched" =>
        LET width == tileSize[1]
            height == tileSize[2]
            W == width * (x_range[2] - x_range[1] + 1)
            H == height * (y_range[2] - y_range[1] + 1)
        IN  /\ stitched.size = <<W, H>>
            /\ DOMAIN stitched.px = (0..W - 1) \X (0..H - 1)
            /\ \A p \in DOMAIN stitched.px :
                 LET cell == <<x_range[1] + p[1] \div width,
                               y_range[1] + p[2] \div height>>
                 IN  stitched.px[p] =
                        IF cell \in Keys
                        THEN TilePixel(Lookup(tiles_dict, cell),
                                       p[1] % width, p[2] % height)
                        ELSE Blank

\* an image of tiles that are not square, with a tile away from the
\* origin and a cell left blank
C7_Witness ==
    /\ pc = "stitched"
    /\ tileSize[1] # tileSize[2]
    /\ \E a \in Keys : a[1] > x_range[1] \/ a[2] > y_range[1]
    /\ Keys # Rect

\* C8: in a run whose GeoTIFF path does not exist or whose projection
\* fails, main never gets past the projection stage: no task is submitted,
\* no tile is fetched and no output is written.
C8_FatalErrorAbortsBeforeFetch ==
    geotiff = "missing" \/ ~projectable
    => /\ pc \in {"start", "resolve", "aborted"}
       /\ \A a \in Grid : fetches[a] = 0 /\ future[a] = "unsubmitted"
       /\ ~saved

\* main was aborted by the input stage or by the projection stage
C8_Witness ==
    /\ pc = "aborted"
    /\ failedStage \in {"input", "projection"}

\* C9: the projection definition utm_to_latlon uses is the one of the
\* GeoTIFF's zone and hemisphere: 326zz for zone zz north, 327zz for
\* zone zz south.
C9_ProjectionDefinitionSelected ==
    crs_used # 0 => crs_used = crs_epsg

\* C10 as stated: at zoom 0 every longitude in [-180, 180] and every
\* latitude strictly between -90 and 90 maps to the tile (0, 0).
C10_ZoomZeroMapsToOrigin ==
    tile_xy # None /\ zoom = 0 => tile_xy = <<0, 0>>

\* C10 as amended: at zoom 0 every longitude from -180 up to, not
\* including, 180 and every latitude from -85 to 89 degrees maps to the
\* tile (0, 0).
C10_ZoomZeroInRange ==
    (/\ tile_xy # None
     /\ zoom = 0
     /\ lon < 180
     /\ -85 <= lat /\ lat <= 89)
    => tile_xy = <<0, 0>>

\* the index of a point near the east and south ends of that range
C10_Witness ==
    /\ tile_xy = <<0, 0>>
    /\ zoom = 0
    /\ lon = 150
    /\ lat = -85

====
